---- MODULE Spec2Model ----
(***************************************************************************)
(* Model of FrpManager (src/unnamed/part_001, the FrpManager class) and of  *)
(* the callers of it in src/src/main/main.ts (IPC handlers, tray menu,      *)
(* quit paths).                                                             *)
(*                                                                          *)
(* JavaScript objects have identity: the registry `configs` holds          *)
(* references, a tray click or the auto-start loop passes the registry      *)
(* record itself to startFrp/stopFrp, an IPC handler receives a structured  *)
(* clone.  saveConfig keeps one object per id in the registry (it replaces  *)
(* the element findIndex finds), so what matters of the object a suspended  *)
(* startFrp call or the 'close' handler of a child holds is whether it is   *)
(* the object the registry holds for its id now: the flag `own`.  A clone   *)
(* never is; a registry record stops being it when saveConfig replaces it,  *)
(* deleteConfig filters it out or the next launch parses new objects.       *)
(*                                                                          *)
(* Handlers run to completion between suspension points (event loop); the   *)
(* suspension points modelled are the fs.writeFile await of startFrp (the   *)
(* per-configuration toml file) and the asynchronous child-process          *)
(* callbacks.  saveConfig and deleteConfig change the manager only before   *)
(* their await of the configs.json write.  The actions saveConfig and       *)
(* deleteConfig take that write to reach the disk as issued; SpecDisk       *)
(* models the await: the handler up to the write (saveConfigBegin,          *)
(* deleteConfigBegin), then the write completing, failing, or being cut by  *)
(* a crash.                                                                 *)
(***************************************************************************)
EXTENDS Integers, Sequences, FiniteSets, Bags, TLC

\* ---------------------------------------------------------------- bounds
\* child processes whose 'close' callback is still outstanding
MaxProcs == 2
\* startFrp calls suspended at the toml-file write at the same time
MaxCalls == 2
\* configs.json writes in flight at the same time
MaxWrites == 2

\* ---------------------------------------------------------------- inputs
Ids == {"a", "b"}
\* a record whose id property is missing (config.id === undefined)
NoId == "undefined"
IdVals == Ids \cup {NoId}
\* valid TOML documents
Bodies == {"x", "y"}
\* the registry holds at most one record per id value
MaxRecords == Cardinality(IdVals)
\* documents TOML.parse throws on
Malformed == {"[x"}
\* config.name, the display label of the configuration of an id
NameOf(id) == IF id = "a" THEN "home" ELSE IF id = "b" THEN "office" ELSE "unnamed"
\* the code a 'close' event carries: null after a signal, the exit status,
\* or the negated errno (ENOENT) of a child that was never started
ExitCodes == {"null", "0", "1", "-2"}

VARIABLES
  configs,     \* this.configs: sequence of records
  processes,   \* this.processes: id -> the tracked child, NoProc = no entry
  detached,    \* bag: children not in the table whose 'close' is outstanding
  calls,       \* bag: startFrp calls suspended at `await fs.writeFile(toml)`
  returned,    \* the call the last step settled, if any, and how it ended
  emitted,     \* events the last step sent to the window, in order
  file,        \* content of configs.json
  session,     \* "booting" (init running), "ready", "failed", "quitting", "exiting"
  autoIdx,     \* position of the for-of loop of startAutoStartConfigs
  initOnly,    \* TRUE while nothing but a successful init() has run in this session
  writes,      \* bag: fs.writeFile(configs.json) calls in flight
  torn         \* TRUE when configs.json holds a cut-off text: `file` is the
               \* records written in full before the cut

vars == <<configs, processes, detached, calls, returned, emitted,
          file, session, autoIdx, initOnly, writes, torn>>

\* ------------------------------------------------------------- helpers
\* no entry in the table
NoProc == [id |-> NoId, own |-> FALSE, state |-> "none"]
\* errors: the prefix saveConfig's catch puts before the message, and the
\* message of the error caught
NoError == [prefix |-> "", cause |-> ""]
\* thrown by fs.writeFile
FsError == [prefix |-> "", cause |-> "EIO"]
\* thrown by TOML.parse
TomlError == [prefix |-> "", cause |-> "TomlError"]
\* new Error('TOML ... : ' + error.message), the catch of saveConfig
TomlInvalid(error) == [prefix |-> "TOML invalid", cause |-> error.cause]

NoResult == [op |-> "none", id |-> NoId, outcome |-> "none", error |-> NoError]

\* the promise of op(config), config.id = id, resolved
Resolved(op, id) == [op |-> op, id |-> id, outcome |-> "resolved", error |-> NoError]
\* the promise rejected with `error`
Threw(op, id, error) == [op |-> op, id |-> id, outcome |-> "rejected", error |-> error]
\* the promise rejected with the error of a file write
Rejected(op, id) == Threw(op, id, FsError)

\* a child spawned by startFrp(config): config.id, whether config is the
\* registry's object, and "live", "killed" (kill() was called on it) or
\* "errored" (the binary could not be executed, 'error' has been delivered)
Child(id, own, state) == [id |-> id, own |-> own, state |-> state]

\* a suspended startFrp(config); `auto` marks the call the loop of
\* startAutoStartConfigs awaits
Call(id, own, auto) == [id |-> id, own |-> own, auto |-> auto]

\* notifyStatusChange(config): 'frp-status-changed' carrying the object
StatusEvent(id, running) == [type |-> "status", id |-> id, isRunning |-> running]

\* notifyError(configId, error): 'frp-error' carrying { configId, error };
\* `about` is the id of the configuration the handler that sends it is for
ErrorEvent(configId, about, error) ==
  [type |-> "error", configId |-> configId, about |-> about, error |-> error]

\* the codes the 'close' of a child can carry
CloseCodes(state) == IF state = "errored" THEN {"-2"} ELSE {"null", "0", "1"}

\* smallest index of S (S non-empty)
Lowest(S) == CHOOSE i \in S : \A j \in S : i <= j

\* children with an outstanding 'close', tracked or not
NumChildren ==
  Cardinality({i \in IdVals : processes[i] # NoProc}) + BagCardinality(detached)

\* JSON.stringify(this.configs): the own properties of every record, no identity
Serialise(cfgs) ==
  [i \in DOMAIN cfgs |-> [id |-> cfgs[i].id, config |-> cfgs[i].config,
                          autoStart |-> cfgs[i].autoStart,
                          isRunning |-> cfgs[i].isRunning]]

\* JSON.parse(data): new objects with the stored properties
Parse(data) ==
  [i \in DOMAIN data |-> [id |-> data[i].id, config |-> data[i].config,
                          autoStart |-> data[i].autoStart,
                          isRunning |-> data[i].isRunning]]

\* this.configs.findIndex(c => c.id === id); 0 stands for -1
FindIndex(cfgs, id) ==
  IF \E i \in DOMAIN cfgs : cfgs[i].id = id
    THEN Lowest({i \in DOMAIN cfgs : cfgs[i].id = id})
    ELSE 0

\* this.configs.filter(c => c.id !== id)
RECURSIVE FilterOut(_, _)
FilterOut(cfgs, id) ==
  IF cfgs = <<>> THEN <<>>
  ELSE IF Head(cfgs).id = id THEN FilterOut(Tail(cfgs), id)
       ELSE <<Head(cfgs)>> \o FilterOut(Tail(cfgs), id)

\* config.isRunning = val on the object a call or closure for `id` holds:
\* visible in the registry when that object is the registry's (own)
SetRunning(cfgs, id, own, val) ==
  [i \in DOMAIN cfgs |->
     IF own /\ i = FindIndex(cfgs, id) THEN [cfgs[i] EXCEPT !.isRunning = val]
     ELSE cfgs[i]]

\* the object x holds is no longer the registry's
Disowned(x) == [x EXCEPT !.own = FALSE]

\* the objects held for `id` by the calls or closures of bag B are no longer
\* the registry's
Disown(B, id) ==
  LET moved(x) == IF x.id = id THEN Disowned(x) ELSE x
      T == {moved(x) : x \in BagToSet(B)}
  IN [y \in T |->
        CopiesIn(y, B)
        + (IF y.id = id /\ CopiesIn([y EXCEPT !.own = TRUE], B) > 0
             THEN CopiesIn([y EXCEPT !.own = TRUE], B) ELSE 0)]

\* getConfig(id): index of the record find() returns, 0 for undefined
getConfig(cfgs, id) == FindIndex(cfgs, id)

\* number of live children of an id: spawned, not killed, not exited
Live(id) ==
  (IF processes[id] # NoProc THEN 1 ELSE 0)
  + CopiesIn(Child(id, TRUE, "live"), detached)
  + CopiesIn(Child(id, FALSE, "live"), detached)

\* the sessions in which the IPC handlers are registered: initialize()
\* registers them after init() has returned ("ready") and after it has
\* thrown ("failed"), its catch having reported the error
Serving == {"ready", "failed"}

\* the sessions of an application that is quitting: cleanup() has run once
\* ("quitting"), and once more on 'before-quit' ("exiting")
Quitting == {"quitting", "exiting"}

\* 'initialization-error', sent by the catch of initialize()
InitErrorEvent == [type |-> "init-error"]

\* ------------------------------------------------------------------ Init
\* state after `new FrpManager(window)` on a fresh install, init() about to
\* run its auto-start loop over the (empty) registry
Init ==
  /\ configs = <<>>
  /\ processes = [i \in IdVals |-> NoProc]
  /\ detached = EmptyBag
  /\ calls = EmptyBag
  /\ returned = NoResult
  /\ emitted = <<>>
  /\ file = <<>>
  /\ session = "booting"
  /\ autoIdx = 1
  /\ initOnly = TRUE
  /\ writes = EmptyBag
  /\ torn = FALSE

\* -------------------------------------------------------------- stopFrp
\* stopFrp that kills the child and leaves its entry in the table
stopFrp_processes_KeepEntry(id) == processes

\* the effects of stopFrp(config), config an object with id `id`:
\* process.kill(), this.processes.delete, config.isRunning = false, notify
stopFrp_processes(id) == [processes EXCEPT ![id] = NoProc]
stopFrp_detached(id) ==
  IF processes[id] = NoProc THEN detached
  ELSE detached (+) SetToBag({[processes[id] EXCEPT !.state = "killed"]})
stopFrp_configs(cfgs, id, own) ==
  IF processes[id] = NoProc THEN cfgs ELSE SetRunning(cfgs, id, own, FALSE)
\* stopFrp with the notification outside its `if (process)`
stopFrp_events_Always(id) == <<StatusEvent(id, FALSE)>>

stopFrp_events(id) ==
  IF processes[id] = NoProc THEN <<>> ELSE <<StatusEvent(id, FALSE)>>

\* ------------------------------------------------------------- startFrp
\* first half of startFrp: compute the path, issue fs.writeFile, suspend
BeginStart(cs, id, own, auto) == cs (+) SetToBag({Call(id, own, auto)})

\* this.processes.set(config.id, frpcProcess): the entry of the id is
\* overwritten; a child that was there keeps running outside the table
startFrp_processes(call) ==
  [processes EXCEPT ![call.id] = Child(call.id, call.own, "live")]
startFrp_detached(call) ==
  IF processes[call.id] = NoProc THEN detached
  ELSE detached (+) SetToBag({processes[call.id]})

\* second half of startFrp, after the toml write: spawn, register, notify
StartSpawn(call) ==
  /\ BagIn(call, calls)
  /\ NumChildren < MaxProcs
  /\ processes' = startFrp_processes(call)
  /\ detached' = startFrp_detached(call)
  /\ configs' = SetRunning(configs, call.id, call.own, TRUE)
  /\ emitted' = <<StatusEvent(call.id, TRUE)>>
  /\ returned' = Resolved("startFrp", call.id)
  /\ calls' = calls (-) SetToBag({call})
  /\ autoIdx' = IF call.auto THEN autoIdx + 1 ELSE autoIdx
  /\ initOnly' = (initOnly /\ call.auto)
  /\ UNCHANGED <<file, session>>
  /\ UNCHANGED <<writes, torn>>

\* startAutoStartConfigs without its try/catch: a rejection leaves the loop
autoStart_catch_Abort(call) == IF call.auto THEN Len(configs) + 1 ELSE autoIdx

\* the loop index after the rejection of startFrp(config): the catch of
\* startAutoStartConfigs handles the one it awaits and the for-of goes on
autoStart_catch(call) == IF call.auto THEN autoIdx + 1 ELSE autoIdx

\* the toml write fails: startFrp rejects before spawning anything; the
\* catch of startAutoStartConfigs reports the rejection of the call it awaits
StartWriteFail(call) ==
  /\ BagIn(call, calls)
  /\ returned' = Rejected("startFrp", call.id)
  /\ emitted' = IF call.auto THEN <<ErrorEvent(call.id, call.id, "auto-start")>> ELSE <<>>
  /\ calls' = calls (-) SetToBag({call})
  /\ autoIdx' = autoStart_catch(call)
  /\ initOnly' = FALSE
  /\ UNCHANGED <<configs, processes, detached, file, session>>
  /\ UNCHANGED <<writes, torn>>

\* a 'close' handler that empties the table (this.processes.clear())
close_processes_Clear(id) == [i \in IdVals |-> NoProc]

\* the 'close' handler of a child of `id`: this.processes.delete(config.id)
\* removes the entry of the id, whichever child it holds
close_processes(id) == [processes EXCEPT ![id] = NoProc]
close_detached(ch, tracked) ==
  IF tracked THEN detached
  ELSE (detached (-) SetToBag({ch}))
       (+) (IF processes[ch.id] = NoProc THEN EmptyBag
            ELSE SetToBag({processes[ch.id]}))

\* the 'close' handler with notifyError ahead of notifyStatusChange
close_events_ErrorFirst(id, code) ==
  (IF code # "0" /\ code # "null"
     THEN <<ErrorEvent(NameOf(id), id, code)>> ELSE <<>>)
  \o <<StatusEvent(id, FALSE)>>

\* what the 'close' handler sends: the status change, then, for a code that
\* is neither 0 nor null, notifyError(name, ...) with config.name
close_events(id, code) ==
  <<StatusEvent(id, FALSE)>>
  \o (IF code # "0" /\ code # "null"
        THEN <<ErrorEvent(NameOf(id), id, code)>> ELSE <<>>)

\* 'close' of a child with `code`: exit of a live child, of one that was sent
\* a signal, or the end of one that was never started
ProcClose(ch, tracked, code) ==
  /\ IF tracked THEN ch # NoProc /\ processes[ch.id] = ch
                ELSE BagIn(ch, detached)
  /\ code \in CloseCodes(ch.state)
  /\ processes' = close_processes(ch.id)
  /\ detached' = close_detached(ch, tracked)
  /\ configs' = SetRunning(configs, ch.id, ch.own, FALSE)
  /\ emitted' = close_events(ch.id, code)
  /\ returned' = NoResult
  /\ initOnly' = FALSE
  /\ UNCHANGED <<calls, file, session, autoIdx>>
  /\ UNCHANGED <<writes, torn>>

\* the 'error' handler of the child of `call`, run right after startFrp has
\* set the entry: this.processes.delete(config.id) leaves the id without one
error_processes(call) == [startFrp_processes(call) EXCEPT ![call.id] = NoProc]
\* the child that was never started awaits its 'close'
error_detached(call) ==
  startFrp_detached(call) (+) SetToBag({Child(call.id, call.own, "errored")})
error_events(call) ==
  <<StatusEvent(call.id, FALSE), ErrorEvent(call.id, call.id, "ENOENT")>>

\* second half of startFrp when the binary cannot be executed (ENOENT,
\* EACCES): spawn() returns a child all the same and startFrp registers it,
\* notifies Running and resolves; the child's 'error' is emitted on the next
\* tick, before any other callback, so its handler is part of the step
StartSpawnFail(call) ==
  /\ BagIn(call, calls)
  /\ NumChildren < MaxProcs
  /\ processes' = error_processes(call)
  /\ detached' = error_detached(call)
  /\ configs' = SetRunning(configs, call.id, call.own, FALSE)
  /\ emitted' = <<StatusEvent(call.id, TRUE)>> \o error_events(call)
  /\ returned' = Resolved("startFrp", call.id)
  /\ calls' = calls (-) SetToBag({call})
  /\ autoIdx' = IF call.auto THEN autoIdx + 1 ELSE autoIdx
  /\ initOnly' = FALSE
  /\ UNCHANGED <<file, session, writes, torn>>

\* the stderr 'data' handler of a child that runs: notifyError(config.id, data)
ProcStderr(ch, tracked) ==
  /\ IF tracked THEN ch # NoProc /\ processes[ch.id] = ch
                ELSE BagIn(ch, detached)
  /\ ch.state # "errored"
  /\ emitted' = <<ErrorEvent(ch.id, ch.id, "stderr")>>
  /\ returned' = NoResult
  /\ initOnly' = FALSE
  /\ UNCHANGED <<configs, processes, detached, calls, file, session, autoIdx,
                 writes, torn>>

\* ------------------------------------------------- IPC handlers (main.ts)
\* the handlers are registered once init() has returned
\* 'start-frp': startFrp on the structured clone the renderer sent
IpcStart(id) ==
  /\ session \in Serving
  /\ BagCardinality(calls) < MaxCalls
  /\ calls' = BeginStart(calls, id, FALSE, FALSE)
  /\ emitted' = <<>>
  /\ returned' = NoResult
  /\ initOnly' = FALSE
  /\ UNCHANGED <<configs, processes, detached, file, session, autoIdx>>
  /\ UNCHANGED <<writes, torn>>

\* 'stop-frp': stopFrp on a clone
IpcStop(id) ==
  /\ session \in Serving
  /\ processes' = stopFrp_processes(id)
  /\ detached' = stopFrp_detached(id)
  /\ emitted' = stopFrp_events(id)
  /\ returned' = Resolved("stopFrp", id)
  /\ initOnly' = FALSE
  /\ UNCHANGED <<configs, calls, file, session, autoIdx>>
  /\ UNCHANGED <<writes, torn>>

\* 'restart-frp': restartFrp on a clone, stopFrp then the first half of startFrp
IpcRestart(id) ==
  /\ session \in Serving
  /\ BagCardinality(calls) < MaxCalls
  /\ processes' = stopFrp_processes(id)
  /\ detached' = stopFrp_detached(id)
  /\ emitted' = stopFrp_events(id)
  /\ calls' = BeginStart(calls, id, FALSE, FALSE)
  /\ returned' = NoResult
  /\ initOnly' = FALSE
  /\ UNCHANGED <<configs, file, session, autoIdx>>
  /\ UNCHANGED <<writes, torn>>

\* ------------------------------------------------ the renderer (App.tsx)
\* the channels initialize() registers with ipcMain.handle
HandledChannels ==
  {"get-configs", "save-config", "delete-config", "start-frp", "stop-frp",
   "restart-frp", "get-architecture", "quit-app", "toggle-auto-start",
   "disable-auto-start", "get-auto-start-status"}

\* the channels the renderer calls ipcRenderer.invoke on
InvokedChannels ==
  {"get-architecture", "get-configs", "get-auto-start-status",
   "toggle-auto-start", "save-config", "delete-config", "toggle-frp", "quit-app"}

\* the rejection of ipcRenderer.invoke on a channel without a handler
NoHandler(channel) == [prefix |-> "No handler registered", cause |-> channel]

\* the start/stop button of the record of `id`: invoke('toggle-frp', config);
\* the channel has no handler, the invoke rejects and the catch of
\* handleToggleRunning shows the error
handleToggleRunning(id) ==
  /\ session \in Serving
  /\ getConfig(configs, id) > 0
  /\ "toggle-frp" \notin HandledChannels
  /\ returned' = Threw("toggle-frp", id, NoHandler("toggle-frp"))
  /\ emitted' = <<>>
  /\ initOnly' = FALSE
  /\ UNCHANGED <<configs, processes, detached, calls, file, session, autoIdx,
                 writes, torn>>

\* saveConfig with the update moved to the end of the registry
saveConfig_configs_MoveToEnd(cfgs, id, body, auto) ==
  Append(FilterOut(cfgs, id),
         [id |-> id, config |-> body, autoStart |-> auto, isRunning |-> FALSE])

\* saveConfig without the findIndex branch: every save pushes
saveConfig_configs_Push(cfgs, id, body, auto) ==
  Append(cfgs, [id |-> id, config |-> body, autoStart |-> auto, isRunning |-> FALSE])

\* the registry after saveConfig(config)
saveConfig_configs(cfgs, id, body, auto) ==
  LET index == FindIndex(cfgs, id)
      rec == [id |-> id, config |-> body, autoStart |-> auto, isRunning |-> FALSE]
  IN IF index > 0 THEN [cfgs EXCEPT ![index] = rec] ELSE Append(cfgs, rec)

\* TOML.parse(config.config): the error it throws, NoError when it returns
TOML_parse(body) == IF body \in Malformed THEN TomlError ELSE NoError

\* 'save-config': saveConfig(config); the dialog (App.tsx handleSave) sends
\* isRunning: false.  The clone becomes the registry's object for the id.
saveConfig(id, body, auto) ==
  /\ session \in Serving
  /\ TOML_parse(body) = NoError
  /\ configs' = saveConfig_configs(configs, id, body, auto)
  /\ processes' = [i \in IdVals |->
                     IF i = id /\ processes[i] # NoProc
                       THEN Disowned(processes[i]) ELSE processes[i]]
  /\ detached' = Disown(detached, id)
  /\ calls' = Disown(calls, id)
  /\ file' = Serialise(configs')
  /\ emitted' = <<>>
  /\ torn' = FALSE
  /\ returned' = Resolved("saveConfig", id)
  /\ initOnly' = FALSE
  /\ UNCHANGED <<session, autoIdx, writes>>

\* saveConfig with TOML.parse moved behind the update of the registry
saveConfig_try_ParseLast(cfgs, id, body, auto) == saveConfig_configs(cfgs, id, body, auto)

\* the registry after the try block of saveConfig: TOML.parse comes first,
\* and when it throws the lines after it are not run
saveConfig_try(cfgs, id, body, auto) ==
  IF TOML_parse(body) = NoError THEN saveConfig_configs(cfgs, id, body, auto) ELSE cfgs

\* saveConfig of a document TOML.parse throws on: the catch rethrows
saveConfigInvalid(id, body, auto) ==
  /\ session \in Serving
  /\ TOML_parse(body) # NoError
  /\ configs' = saveConfig_try(configs, id, body, auto)
  /\ returned' = Threw("saveConfig", id, TomlInvalid(TOML_parse(body)))
  /\ emitted' = <<>>
  /\ initOnly' = FALSE
  /\ UNCHANGED <<processes, detached, calls, file, session, autoIdx, writes, torn>>

\* saveConfig when fs.writeFile(configs.json) rejects without touching the
\* file: the registry has been updated, the catch wraps the error
saveConfigWriteFail(id, body, auto) ==
  /\ session \in Serving
  /\ TOML_parse(body) = NoError
  /\ configs' = saveConfig_configs(configs, id, body, auto)
  /\ processes' = [i \in IdVals |->
                     IF i = id /\ processes[i] # NoProc
                       THEN Disowned(processes[i]) ELSE processes[i]]
  /\ detached' = Disown(detached, id)
  /\ calls' = Disown(calls, id)
  /\ returned' = Threw("saveConfig", id, TomlInvalid(FsError))
  /\ emitted' = <<>>
  /\ initOnly' = FALSE
  /\ UNCHANGED <<file, session, autoIdx, writes, torn>>

\* deleteConfig without its `if (config)`
deleteConfig_found_Always(cfgs, id) == TRUE

\* if (config), config = this.getConfig(id)
deleteConfig_found(cfgs, id) == getConfig(cfgs, id) > 0

\* 'delete-config': deleteConfig(id)
deleteConfig(id) ==
  /\ session \in Serving
  /\ IF deleteConfig_found(configs, id)
       THEN /\ processes' = stopFrp_processes(id)
            /\ detached' = Disown(stopFrp_detached(id), id)
            /\ calls' = Disown(calls, id)
            /\ emitted' = stopFrp_events(id)
            /\ configs' = FilterOut(stopFrp_configs(configs, id, TRUE), id)
            /\ file' = Serialise(configs')
            /\ torn' = FALSE
       ELSE /\ emitted' = <<>>
            /\ UNCHANGED <<processes, detached, calls, configs, file, torn>>
  /\ returned' = Resolved("deleteConfig", id)
  /\ initOnly' = FALSE
  /\ UNCHANGED <<session, autoIdx, writes>>

\* deleteConfig when fs.writeFile(configs.json) rejects without touching the
\* file: the child has been stopped and the record filtered out
deleteConfigWriteFail(id) ==
  /\ session \in Serving
  /\ deleteConfig_found(configs, id)
  /\ processes' = stopFrp_processes(id)
  /\ detached' = Disown(stopFrp_detached(id), id)
  /\ calls' = Disown(calls, id)
  /\ emitted' = stopFrp_events(id)
  /\ configs' = FilterOut(stopFrp_configs(configs, id, TRUE), id)
  /\ returned' = Threw("deleteConfig", id, FsError)
  /\ initOnly' = FALSE
  /\ UNCHANGED <<file, session, autoIdx, writes, torn>>

\* ------------------------------------- the configs.json write, awaited
\* fs.writeFile(this.configPath, data) in flight, issued by op for id
Write(op, id, data) == [op |-> op, id |-> id, data |-> data]

\* saveConfig up to its await: parse, upsert, issue the write
saveConfigBegin(id, body, auto) ==
  /\ session \in Serving
  /\ TOML_parse(body) = NoError
  /\ BagCardinality(writes) < MaxWrites
  /\ configs' = saveConfig_configs(configs, id, body, auto)
  /\ processes' = [i \in IdVals |->
                     IF i = id /\ processes[i] # NoProc
                       THEN Disowned(processes[i]) ELSE processes[i]]
  /\ detached' = Disown(detached, id)
  /\ calls' = Disown(calls, id)
  /\ writes' = writes (+) SetToBag({Write("saveConfig", id, Serialise(configs'))})
  /\ emitted' = <<>>
  /\ returned' = NoResult
  /\ initOnly' = FALSE
  /\ UNCHANGED <<file, session, autoIdx, torn>>

\* deleteConfig up to its await: stopFrp, filter, issue the write; without a
\* record of the id it returns at once
deleteConfigBegin(id) ==
  /\ session \in Serving
  /\ IF deleteConfig_found(configs, id)
       THEN /\ BagCardinality(writes) < MaxWrites
            /\ processes' = stopFrp_processes(id)
            /\ detached' = Disown(stopFrp_detached(id), id)
            /\ calls' = Disown(calls, id)
            /\ emitted' = stopFrp_events(id)
            /\ configs' = FilterOut(stopFrp_configs(configs, id, TRUE), id)
            /\ writes' = writes (+) SetToBag({Write("deleteConfig", id, Serialise(configs'))})
            /\ returned' = NoResult
       ELSE /\ emitted' = <<>>
            /\ returned' = Resolved("deleteConfig", id)
            /\ UNCHANGED <<processes, detached, calls, configs, writes>>
  /\ initOnly' = FALSE
  /\ UNCHANGED <<file, session, autoIdx, torn>>

\* the write completes: the file holds its data, the handler returns
WriteDone(w) ==
  /\ BagIn(w, writes)
  /\ file' = w.data
  /\ torn' = FALSE
  /\ writes' = writes (-) SetToBag({w})
  /\ returned' = Resolved(w.op, w.id)
  /\ emitted' = <<>>
  /\ initOnly' = FALSE
  /\ UNCHANGED <<configs, processes, detached, calls, session, autoIdx>>

\* the machine or the process goes down while the write is under way:
\* fs.writeFile has truncated configs.json and written the first k records
\* of its data in full
WriteCrash(w, k) ==
  /\ BagIn(w, writes)
  /\ k \in 0..Len(w.data)
  /\ file' = SubSeq(w.data, 1, k)
  /\ torn' = TRUE
  /\ writes' = EmptyBag
  /\ session' = "quitting"
  /\ emitted' = <<>>
  /\ returned' = NoResult
  /\ initOnly' = FALSE
  /\ UNCHANGED <<configs, processes, detached, calls, autoIdx>>

\* --------------------------------------------------- tray menu (main.ts)
\* the menu is rebuilt from getConfigs() on the tray click that pops it up;
\* its items hold the registry records themselves
TrayToggle(i) ==
  /\ i \in DOMAIN configs
  /\ session \notin Quitting
  /\ LET cfg == configs[i]
     IN IF cfg.isRunning
          THEN /\ processes' = stopFrp_processes(cfg.id)
               /\ detached' = stopFrp_detached(cfg.id)
               /\ emitted' = stopFrp_events(cfg.id)
               /\ configs' = stopFrp_configs(configs, cfg.id, TRUE)
               /\ UNCHANGED calls
          ELSE /\ BagCardinality(calls) < MaxCalls
               /\ calls' = BeginStart(calls, cfg.id, TRUE, FALSE)
               /\ emitted' = <<>>
               /\ UNCHANGED <<processes, detached, configs>>
  /\ returned' = NoResult
  /\ initOnly' = FALSE
  /\ UNCHANGED <<file, session, autoIdx>>
  /\ UNCHANGED <<writes, torn>>

\* the restart item is enabled for a record with isRunning
TrayRestart(i) ==
  /\ i \in DOMAIN configs
  /\ session \notin Quitting
  /\ configs[i].isRunning
  /\ BagCardinality(calls) < MaxCalls
  /\ LET cfg == configs[i]
     IN /\ processes' = stopFrp_processes(cfg.id)
        /\ detached' = stopFrp_detached(cfg.id)
        /\ emitted' = stopFrp_events(cfg.id)
        /\ configs' = stopFrp_configs(configs, cfg.id, TRUE)
        /\ calls' = BeginStart(calls, cfg.id, TRUE, FALSE)
  /\ returned' = NoResult
  /\ initOnly' = FALSE
  /\ UNCHANGED <<file, session, autoIdx>>
  /\ UNCHANGED <<writes, torn>>

\* ------------------------------------------------------------ init, quit
\* one turn of the for-of loop of startAutoStartConfigs; after the last
\* record init() returns and initialize() registers the IPC handlers
startAutoStartConfigs ==
  /\ session = "booting"
  /\ \A c \in BagToSet(calls) : ~c.auto
  /\ IF autoIdx > Len(configs)
       THEN /\ session' = "ready"
            /\ UNCHANGED <<calls, autoIdx>>
       ELSE /\ UNCHANGED session
            /\ IF configs[autoIdx].autoStart /\ ~configs[autoIdx].isRunning
                 THEN /\ BagCardinality(calls) < MaxCalls
                      /\ calls' = BeginStart(calls, configs[autoIdx].id, TRUE, TRUE)
                      /\ UNCHANGED autoIdx
                 ELSE /\ autoIdx' = autoIdx + 1
                      /\ UNCHANGED calls
  /\ emitted' = <<>>
  /\ returned' = NoResult
  /\ UNCHANGED <<configs, processes, detached, file, initOnly>>
  /\ UNCHANGED <<writes, torn>>

\* cleanup(): kill every tracked child and delete its entry
cleanup_detached ==
  LET killed == {[processes[i] EXCEPT !.state = "killed"] :
                   i \in {j \in IdVals : processes[j] # NoProc}}
  IN detached (+) [k \in killed |->
                     Cardinality({i \in IdVals : processes[i] # NoProc /\
                                    [processes[i] EXCEPT !.state = "killed"] = k})]

\* cleanup() that kills the children and keeps their entries
cleanup_processes_Keep == processes

\* the table after cleanup(): this.processes.delete(id) for every entry
cleanup_processes == [i \in IdVals |-> NoProc]

\* 'quit-app', the tray's exit item: cleanup() then app.quit()
QuitApp ==
  /\ session \in Serving
  /\ detached' = cleanup_detached
  /\ processes' = cleanup_processes
  /\ session' = "quitting"
  /\ emitted' = <<>>
  /\ returned' = NoResult
  /\ initOnly' = FALSE
  /\ UNCHANGED <<configs, calls, file, autoIdx>>
  /\ UNCHANGED <<writes, torn>>

\* 'before-quit', emitted by app.quit(): cleanup() a second time
BeforeQuit ==
  /\ session = "quitting"
  /\ detached' = cleanup_detached
  /\ processes' = cleanup_processes
  /\ session' = "exiting"
  /\ emitted' = <<>>
  /\ returned' = NoResult
  /\ initOnly' = FALSE
  /\ UNCHANGED <<configs, calls, file, autoIdx, writes, torn>>

\* initConfigs: the registry is what JSON.parse makes of configs.json, and
\* empty when JSON.parse throws on it (the catch)
initConfigs == IF torn THEN <<>> ELSE Parse(file)

\* 'before-quit': cleanup() once more, the application exits; the next launch
\* constructs a new FrpManager and init() loads configs.json (initConfigs)
Relaunch ==
  /\ session \in Quitting
  /\ configs' = initConfigs
  /\ processes' = [i \in IdVals |-> NoProc]
  /\ detached' = EmptyBag
  /\ calls' = EmptyBag
  /\ returned' = NoResult
  /\ emitted' = <<>>
  /\ session' = "booting"
  /\ autoIdx' = 1
  /\ initOnly' = TRUE
  /\ writes' = EmptyBag
  /\ UNCHANGED <<file, torn>>

\* the next launch when init() throws at initBinary (frpc missing, or
\* access/chmod refused): initConfigs has not run and the registry is the
\* constructor's []; initialize() catches, reports and goes on to register
\* the IPC handlers
initFails ==
  /\ session \in Quitting
  /\ configs' = <<>>
  /\ processes' = [i \in IdVals |-> NoProc]
  /\ detached' = EmptyBag
  /\ calls' = EmptyBag
  /\ returned' = NoResult
  /\ emitted' = <<InitErrorEvent>>
  /\ session' = "failed"
  /\ autoIdx' = 1
  /\ initOnly' = FALSE
  /\ writes' = EmptyBag
  /\ UNCHANGED <<file, torn>>

\* the children and calls a step may pick
Children ==
  {Child(i, o, s) : i \in IdVals, o \in BOOLEAN, s \in {"live", "killed", "errored"}}
\* the codes of a child that ends without an error to report
QuietCodes == {"null", "0"}
Calls == {Call(i, o, a) : i \in IdVals, o \in BOOLEAN, a \in BOOLEAN}

\* the steps of the program; the requests draw their ids from Ids and save
\* one document
Next ==
  \/ \E id \in Ids : IpcStart(id)
  \/ \E id \in Ids : IpcStop(id)
  \/ \E id \in Ids : IpcRestart(id)
  \/ \E id \in Ids, auto \in BOOLEAN : saveConfig(id, "x", auto)
  \/ \E id \in Ids : deleteConfig(id)
  \/ \E i \in DOMAIN configs : TrayToggle(i)
  \/ \E i \in DOMAIN configs : TrayRestart(i)
  \/ \E call \in Calls : StartSpawn(call)
  \/ \E call \in Calls : StartWriteFail(call)
  \/ \E ch \in Children, tracked \in BOOLEAN, code \in QuietCodes :
       ProcClose(ch, tracked, code)
  \/ startAutoStartConfigs
  \/ QuitApp
  \/ Relaunch

Spec == Init /\ [][Next]_vars

\* the steps that reach the registry: saves of every document with and
\* without an id, deletes, quit and the next launch with its auto-starts,
\* and the callbacks of the children these start
NextStore ==
  \/ \E id \in IdVals, body \in Bodies, auto \in BOOLEAN : saveConfig(id, body, auto)
  \/ \E id \in IdVals : deleteConfig(id)
  \/ \E call \in Calls : StartSpawn(call)
  \/ \E ch \in Children, tracked \in BOOLEAN, code \in QuietCodes :
       ProcClose(ch, tracked, code)
  \/ startAutoStartConfigs
  \/ QuitApp
  \/ Relaunch

SpecStore == Init /\ [][NextStore]_vars

\* the registry and its file with the await of the configs.json write: saves
\* of valid and malformed documents, deletes, writes that complete in any
\* order, fail or are cut by a crash, and the next launch
NextDisk ==
  \/ \E id \in Ids : saveConfigBegin(id, "x", FALSE)
  \/ \E id \in Ids, body \in Malformed : saveConfigInvalid(id, body, FALSE)
  \/ \E id \in Ids : saveConfigWriteFail(id, "x", FALSE)
  \/ \E id \in Ids : deleteConfigBegin(id)
  \/ \E id \in Ids : deleteConfigWriteFail(id)
  \/ \E w \in BagToSet(writes) : WriteDone(w)
  \/ \E w \in BagToSet(writes), k \in 0..MaxRecords : WriteCrash(w, k)
  \/ startAutoStartConfigs
  \/ QuitApp
  \/ Relaunch

SpecDisk == Init /\ [][NextDisk]_vars

\* saves and deletes that overlap, every configs.json write succeeding, in
\* any order of completion
NextWrites ==
  \/ \E id \in Ids, auto \in BOOLEAN : saveConfigBegin(id, "x", auto)
  \/ \E id \in Ids : deleteConfigBegin(id)
  \/ \E w \in BagToSet(writes) : WriteDone(w)
  \/ startAutoStartConfigs

SpecWrites == Init /\ [][NextWrites]_vars

\* the program with its requests issued one at a time: a step that would
\* leave a second startFrp call suspended at its file write is not taken
OneCall == BagCardinality(calls') <= 1

NextSerial ==
  \/ \E id \in Ids : IpcStart(id) /\ OneCall
  \/ \E id \in Ids : IpcStop(id)
  \/ \E id \in Ids : IpcRestart(id) /\ OneCall
  \/ \E id \in Ids, auto \in BOOLEAN : saveConfig(id, "x", auto)
  \/ \E id \in Ids : deleteConfig(id)
  \/ \E i \in DOMAIN configs : TrayToggle(i) /\ OneCall
  \/ \E i \in DOMAIN configs : TrayRestart(i) /\ OneCall
  \/ \E call \in Calls : StartSpawn(call)
  \/ \E call \in Calls : StartWriteFail(call)
  \/ \E ch \in Children, tracked \in BOOLEAN, code \in QuietCodes :
       ProcClose(ch, tracked, code)
  \/ startAutoStartConfigs /\ OneCall
  \/ QuitApp
  \/ Relaunch

SpecSerial == Init /\ [][NextSerial]_vars

\* stops and deletes among the starts that give them something to stop:
\* requests one at a time, from the tray and over IPC, on ids with and
\* without a record, and the exits of the children
NextStop ==
  \/ \E id \in Ids : saveConfig(id, "x", FALSE)
  \/ \E id \in Ids : deleteConfig(id)
  \/ \E id \in Ids : IpcStart(id) /\ OneCall
  \/ \E id \in Ids : IpcStop(id)
  \/ \E i \in DOMAIN configs : TrayToggle(i) /\ OneCall
  \/ \E call \in Calls : StartSpawn(call)
  \/ \E ch \in Children, tracked \in BOOLEAN, code \in QuietCodes :
       ProcClose(ch, tracked, code)
  \/ startAutoStartConfigs

SpecStop == Init /\ [][NextStop]_vars

\* the children at run time: starts and stops from the tray and over IPC,
\* spawns that succeed or fail, stderr output, and exits with every code
NextRun ==
  \/ \E id \in Ids : saveConfig(id, "x", FALSE)
  \/ \E id \in Ids : IpcStart(id)
  \/ \E id \in Ids : IpcStop(id)
  \/ \E i \in DOMAIN configs : TrayToggle(i)
  \/ \E call \in Calls : StartSpawn(call)
  \/ \E call \in Calls : StartSpawnFail(call)
  \/ \E call \in Calls : StartWriteFail(call)
  \/ \E ch \in Children, tracked \in BOOLEAN : ProcStderr(ch, tracked)
  \/ \E ch \in Children, tracked \in BOOLEAN, code \in ExitCodes :
       ProcClose(ch, tracked, code)
  \/ startAutoStartConfigs

SpecRun == Init /\ [][NextRun]_vars

\* launches: saves with and without autoStart, starts over IPC one at a
\* time, quit, and the next launch whose init() loads the registry and runs
\* the auto-start loop, or throws at initBinary; the toml write and the spawn
\* of every start can fail
NextBoot ==
  \/ \E id \in Ids, auto \in BOOLEAN : saveConfig(id, "x", auto)
  \/ \E id \in Ids : IpcStart(id) /\ OneCall
  \/ \E call \in Calls : StartSpawn(call)
  \/ \E call \in Calls : StartSpawnFail(call)
  \/ \E call \in Calls : StartWriteFail(call)
  \/ startAutoStartConfigs
  \/ QuitApp
  \/ Relaunch
  \/ initFails

\* a suspended startFrp the loop of startAutoStartConfigs awaits settles
AutoStartSettles ==
  \E call \in Calls :
    call.auto /\ (StartSpawn(call) \/ StartSpawnFail(call) \/ StartWriteFail(call))

\* the event loop runs the continuation of init() and completes the file
\* write it awaits
SpecBoot ==
  /\ Init /\ [][NextBoot]_vars
  /\ WF_vars(startAutoStartConfigs) /\ WF_vars(AutoStartSettles)

\* quitting: starts from the tray and over IPC one at a time, the exits of
\* the children at any moment, the two cleanup() calls of a quit and the
\* next launch
NextQuit ==
  \/ \E id \in Ids : saveConfig(id, "x", FALSE)
  \/ \E id \in Ids : IpcStart(id) /\ OneCall
  \/ \E i \in DOMAIN configs : TrayToggle(i) /\ OneCall
  \/ \E call \in Calls : StartSpawn(call)
  \/ \E ch \in Children, tracked \in BOOLEAN, code \in ExitCodes :
       ProcClose(ch, tracked, code)
  \/ startAutoStartConfigs
  \/ QuitApp
  \/ BeforeQuit
  \/ Relaunch

SpecQuit == Init /\ [][NextQuit]_vars

\* restarts: every start is the second half of a 'restart-frp' request, one
\* at a time, on ids with and without a running child; its toml write or
\* its spawn can fail
NextRestart ==
  \/ \E id \in Ids : saveConfig(id, "x", FALSE)
  \/ \E id \in Ids : IpcRestart(id) /\ OneCall
  \/ \E id \in Ids : IpcStop(id)
  \/ \E call \in Calls : StartSpawn(call)
  \/ \E call \in Calls : StartSpawnFail(call)
  \/ \E call \in Calls : StartWriteFail(call)
  \/ \E ch \in Children, tracked \in BOOLEAN, code \in ExitCodes :
       ProcClose(ch, tracked, code)
  \/ startAutoStartConfigs

SpecRestart == Init /\ [][NextRestart]_vars

\* a step that would leave an id with two startFrp calls suspended, or with
\* two children outside the table, is not taken
OnePerId ==
  \A id \in IdVals :
    /\ BagCardinality([c \in {x \in BagToSet(calls') : x.id = id} |-> CopiesIn(c, calls')]) <= 1
    /\ BagCardinality([c \in {x \in BagToSet(detached') : x.id = id} |-> CopiesIn(c, detached')]) <= 1

\* two ids side by side: the requests of each id one at a time, those of
\* different ids overlapping in every order, with failed spawns, stderr
\* output and exits with every code
NextPair ==
  \/ \E id \in Ids : saveConfig(id, "x", FALSE)
  \/ \E id \in Ids : IpcStart(id) /\ OnePerId
  \/ \E id \in Ids : IpcStop(id) /\ OnePerId
  \/ \E id \in Ids : IpcRestart(id) /\ OnePerId
  \/ \E i \in DOMAIN configs : TrayToggle(i) /\ OnePerId
  \/ \E i \in DOMAIN configs : TrayRestart(i) /\ OnePerId
  \/ \E call \in Calls : StartSpawn(call) /\ OnePerId
  \/ \E call \in Calls : StartSpawnFail(call) /\ OnePerId
  \/ \E call \in Calls : StartWriteFail(call)
  \/ \E ch \in Children, tracked \in BOOLEAN : ProcStderr(ch, tracked)
  \/ \E ch \in Children, tracked \in BOOLEAN, code \in ExitCodes :
       ProcClose(ch, tracked, code) /\ OnePerId
  \/ startAutoStartConfigs

SpecPair == Init /\ [][NextPair]_vars

\* the window: the requests the renderer makes, with the tray starting and
\* stopping the records so that the button is pressed on running and on
\* stopped ones
NextRenderer ==
  \/ \E id \in Ids : saveConfig(id, "x", FALSE)
  \/ \E id \in Ids : deleteConfig(id)
  \/ \E id \in Ids : handleToggleRunning(id)
  \/ \E i \in DOMAIN configs : TrayToggle(i) /\ OneCall
  \/ \E call \in Calls : StartSpawn(call)
  \/ \E ch \in Children, tracked \in BOOLEAN, code \in QuietCodes :
       ProcClose(ch, tracked, code)
  \/ startAutoStartConfigs
  \/ QuitApp
  \/ Relaunch

SpecRenderer == Init /\ [][NextRenderer]_vars

\* the events of the children: requests one at a time, on both ids, from the
\* tray and over IPC, restarts included, spawns that succeed or fail, stderr
\* output and exits with every code
NextEvents ==
  \/ \E id \in Ids : saveConfig(id, "x", FALSE)
  \/ \E id \in Ids : IpcStart(id) /\ OneCall
  \/ \E id \in Ids : IpcStop(id)
  \/ \E id \in Ids : IpcRestart(id) /\ OneCall
  \/ \E i \in DOMAIN configs : TrayToggle(i) /\ OneCall
  \/ \E i \in DOMAIN configs : TrayRestart(i) /\ OneCall
  \/ \E call \in Calls : StartSpawn(call)
  \/ \E call \in Calls : StartSpawnFail(call)
  \/ \E call \in Calls : StartWriteFail(call)
  \/ \E ch \in Children, tracked \in BOOLEAN : ProcStderr(ch, tracked)
  \/ \E ch \in Children, tracked \in BOOLEAN, code \in ExitCodes :
       ProcClose(ch, tracked, code)
  \/ startAutoStartConfigs

SpecEvents == Init /\ [][NextEvents]_vars

\* ======================================================== the claims
\* the ids of the status events of a step that carry isRunning = running
StatusIds(evs, running) ==
  {evs[k].id : k \in {j \in DOMAIN evs : evs[j].type = "status" /\ evs[j].isRunning = running}}

\* C1: in every reachable state each configuration id has at most one live
\* child process (spawned and not yet killed or exited).
C1_AtMostOneLive == \A id \in IdVals : Live(id) <= 1

\* C2: a startFrp call on an id that has a tracked process fails: the step
\* that settles it rejects the call, spawns nothing and leaves the table and
\* the children as they were.  (Checked with the requests issued one at a
\* time, so the entry was there when the call was made.)
C2_StartOnTrackedRejected ==
  [][\A call \in Calls :
       ((StartSpawn(call) \/ StartWriteFail(call)) /\ processes[call.id] # NoProc)
         => /\ returned' = Rejected("startFrp", call.id)
            /\ processes' = processes
            /\ detached' = detached]_vars

\* C3: of two overlapping startFrp calls for one id (both suspended at the
\* file write), when the first has resolved the second is rejected, and the
\* id is left with exactly one live process.  Two calls settled by
\* consecutive steps were both suspended before the first of these steps.
C3_OverlapOneRejected ==
  [][\A call \in Calls :
       ((StartSpawn(call) \/ StartWriteFail(call))
          /\ returned = Resolved("startFrp", call.id))
         => /\ returned' = Rejected("startFrp", call.id)
            /\ Live(call.id)' = 1]_vars

\* C4: after stopFrp then startFrp on an id, the new child stays tracked and
\* reported Running when the 'close' of the stopped child is delivered: that
\* callback leaves the entry of the id in place and announces no Stopped.
C4_RestartStaysTracked ==
  [][\A ch \in Children, code \in ExitCodes :
       (ProcClose(ch, FALSE, code) /\ ch.state = "killed" /\ processes[ch.id] # NoProc)
         => /\ processes'[ch.id] = processes[ch.id]
            /\ ch.id \notin StatusIds(emitted', FALSE)]_vars

\* C5: with no start in progress, what an observer reads for an id says
\* Running exactly when the process table holds a process for the id: the
\* isRunning of every record of getConfigs(), and the status events just sent.
C5_RunStateMatchesTable ==
  (session = "ready" /\ calls = EmptyBag)
    => /\ \A i \in DOMAIN configs :
            configs[i].isRunning <=> (processes[configs[i].id] # NoProc)
       /\ \A id \in StatusIds(emitted, TRUE) : processes[id] # NoProc
       /\ \A id \in StatusIds(emitted, FALSE) : processes[id] = NoProc

\* C6: no record is ever in the persisted file with isRunning true, and after
\* a cold load (initConfigs) every record has isRunning false.
C6_NeverPersistedRunning ==
  [][/\ \A i \in DOMAIN file' : ~file'[i].isRunning
     /\ Relaunch => \A i \in DOMAIN configs' : ~configs'[i].isRunning]_vars

\* C7: when init() has loaded the registry and run startAutoStartConfigs with
\* every start succeeding, every record with autoStart is Running with a
\* tracked process and every record without it is Stopped with none.
C7_BootStartsAutoStart ==
  (session = "ready" /\ initOnly)
    => \A i \in DOMAIN configs :
         IF configs[i].autoStart
           THEN configs[i].isRunning /\ processes[configs[i].id] # NoProc
           ELSE ~configs[i].isRunning /\ processes[configs[i].id] = NoProc

\* C8: saveConfig followed by getConfig(id) returns a record whose body is
\* the input; the registry then holds exactly one record of the id; a save
\* of an id the registry holds updates in place: same length, same position,
\* the other records untouched.
C8_SaveThenGet ==
  [][\A id \in IdVals, body \in Bodies, auto \in BOOLEAN :
       (returned' = Resolved("saveConfig", id) /\ saveConfig(id, body, auto))
         => LET was == getConfig(configs, id)
                now == getConfig(configs', id)
            IN /\ now > 0
               /\ configs'[now].config = body
               /\ Cardinality({i \in DOMAIN configs' : configs'[i].id = id}) = 1
               /\ was > 0 => /\ now = was
                             /\ Len(configs') = Len(configs)
                             /\ \A i \in DOMAIN configs \ {was} :
                                  configs'[i] = configs[i]]_vars

\* a save has just updated the first of several records
C8_Witness ==
  /\ returned = Resolved("saveConfig", "a")
  /\ Len(configs) >= 2
  /\ configs[1].id = "a"
  /\ configs[1].config = "y"

\* C9: no two records of the registry have the same id.
C9_UniqueIds ==
  \A i, j \in DOMAIN configs : i # j => configs[i].id # configs[j].id

\* a registry of several records, the last request having been a delete
C9_Witness ==
  /\ returned.op = "deleteConfig"
  /\ Len(configs) >= 2

\* C10: saveConfig of a record without an id adds a record, and its id is
\* one the core minted: an id, and none the registry already held.
C10_SaveWithoutIdMints ==
  [][\A body \in Bodies, auto \in BOOLEAN :
       (returned' = Resolved("saveConfig", NoId) /\ saveConfig(NoId, body, auto))
         => /\ Len(configs') = Len(configs) + 1
            /\ configs'[Len(configs')].id
                 \notin ({NoId} \cup {configs[i].id : i \in DOMAIN configs})]_vars

\* C11: saveConfig of a malformed document fails with the invalid-
\* configuration error and leaves the registry and the persisted file as
\* they were.
C11_InvalidSaveRejected ==
  [][\A id \in IdVals, body \in Malformed, auto \in BOOLEAN :
       saveConfigInvalid(id, body, auto)
         => /\ returned' = Threw("saveConfig", id, TomlInvalid(TomlError))
            /\ configs' = configs
            /\ file' = file
            /\ torn' = torn]_vars

\* a save of a malformed document for an id the registry and the file hold
\* has just been rejected
C11_Witness ==
  /\ returned = Threw("saveConfig", "a", TomlInvalid(TomlError))
  /\ getConfig(configs, "a") > 0
  /\ file # <<>>

\* C12: when the configs.json write of saveConfig or deleteConfig fails, the
\* call is rejected with an error that is not the invalid-configuration one,
\* and the registry is as before the call.
C12_WriteFailureKeepsRegistry ==
  [][\A id \in IdVals, body \in Bodies, auto \in BOOLEAN :
       (saveConfigWriteFail(id, body, auto) \/ deleteConfigWriteFail(id))
         => /\ returned'.outcome = "rejected"
            /\ returned'.error.prefix # TomlInvalid(TomlError).prefix
            /\ configs' = configs]_vars

\* C13: a crash during the configs.json write of saveConfig or deleteConfig
\* leaves the file holding the complete old text or the complete new one.
C13_CrashLeavesWholeFile ==
  [][\A w \in BagToSet(writes), k \in 0..MaxRecords :
       WriteCrash(w, k) => /\ ~torn'
                           /\ file' = file \/ file' = w.data]_vars

C15_DeleteAbsentNoOp ==
  [][\A id \in IdVals :
       (returned' = Resolved("deleteConfig", id) /\ deleteConfig(id)
          /\ \A i \in DOMAIN configs : configs[i].id # id)
         => /\ configs' = configs
            /\ processes' = processes
            /\ detached' = detached
            /\ file' = file
            /\ emitted' = <<>>]_vars

\* a delete of an id without a record has been answered while a process of
\* that id is tracked and the registry holds another record
C15_Witness ==
  /\ returned = Resolved("deleteConfig", "a")
  /\ processes["a"] # NoProc
  /\ getConfig(configs, "a") = 0
  /\ Len(configs) >= 1

\* C16: stopFrp for an id without a tracked process resolves and does
\* nothing: no child is signalled, the table, the children and every record
\* are unchanged and nothing is sent to the window.  The cases are the
\* 'stop-frp' request and the tray's stop item of a record whose isRunning
\* is stale.
C16_StopUntrackedNoOp ==
  [][/\ \A id \in IdVals :
          (IpcStop(id) /\ processes[id] = NoProc)
            => /\ returned' = Resolved("stopFrp", id)
               /\ processes' = processes
               /\ detached' = detached
               /\ configs' = configs
               /\ emitted' = <<>>
     /\ \A i \in DOMAIN configs :
          (TrayToggle(i) /\ configs[i].isRunning /\ processes[configs[i].id] = NoProc)
            => /\ processes' = processes
               /\ detached' = detached
               /\ configs' = configs
               /\ emitted' = <<>>]_vars

\* a stop of an id without a tracked process has been answered, the record
\* of the id still saying Running and another id having a tracked process
C16_Witness ==
  /\ returned = Resolved("stopFrp", "a")
  /\ emitted = <<>>
  /\ processes["a"] = NoProc
  /\ processes["b"] # NoProc
  /\ \E i \in DOMAIN configs : configs[i].id = "a" /\ configs[i].isRunning

\* C17: when startFrp for an id without a tracked process spawns, the child
\* is registered, the runState of the id becomes Running (the record
\* getConfigs() returns for the id says isRunning) and exactly one event is
\* sent, status-changed with Running for the id.
C17_StartRegistersAndRuns ==
  [][\A call \in Calls :
       (StartSpawn(call) /\ processes[call.id] = NoProc)
         => /\ processes'[call.id] # NoProc
            /\ processes'[call.id].state = "live"
            /\ emitted' = <<StatusEvent(call.id, TRUE)>>
            /\ \A i \in DOMAIN configs' :
                 configs'[i].id = call.id => configs'[i].isRunning]_vars

\* the error events among evs
ErrorEvents(evs) == {evs[k] : k \in {j \in DOMAIN evs : evs[j].type = "error"}}

\* C18: when the binary cannot be executed, startFrp returns a failure to
\* its caller, an error event is sent for the id, and the id is left without
\* a tracked process and with runState Stopped.
C18_SpawnFailureReported ==
  [][\A call \in Calls :
       StartSpawnFail(call)
         => /\ returned'.op = "startFrp"
            /\ returned'.outcome = "rejected"
            /\ \E e \in ErrorEvents(emitted') : e.configId = call.id
            /\ processes'[call.id] = NoProc
            /\ \A i \in DOMAIN configs' :
                 configs'[i].id = call.id => ~configs'[i].isRunning]_vars

\* C19: the 'close' of a child sends an error event carrying the exit code
\* exactly when the code is non-zero and the child had not been sent a
\* signal by stopFrp, deleteConfig, restartFrp or cleanup.
C19_ErrorIffUnrequestedAbnormal ==
  [][\A ch \in Children, tracked \in BOOLEAN, code \in ExitCodes :
       ProcClose(ch, tracked, code)
         => ((\E e \in ErrorEvents(emitted') : e.error = code)
               <=> (code \notin {"0", "null"} /\ ch.state # "killed"))]_vars

\* C20: every error event sent for a configuration carries that
\* configuration's id as its configId.
C20_ErrorTaggedWithId ==
  \A e \in ErrorEvents(emitted) : e.configId = e.about

\* the codes and causes the 'close' and 'error' handlers report
ExitErrors == ExitCodes \cup {"ENOENT"}

\* C21: when the end of a child sends both a status-changed(Stopped) event
\* and an error event about an id, the status event is sent first and none
\* follows the error; and the status events of an id are sent in the order of
\* the changes of its table entry, so that the last one of a step says
\* Running exactly when the step leaves the id with an entry.
C21_StatusBeforeError ==
  [][\A k \in DOMAIN emitted' :
       LET e == emitted'[k]
           laterStatus(id) == {j \in (k+1)..Len(emitted') :
                                emitted'[j].type = "status" /\ emitted'[j].id = id}
       IN /\ (e.type = "error" /\ e.error \in ExitErrors)
               => /\ \E j \in 1..(k-1) : emitted'[j] = StatusEvent(e.about, FALSE)
                  /\ laterStatus(e.about) = {}
          /\ (e.type = "status" /\ laterStatus(e.id) = {})
               => (e.isRunning <=> processes'[e.id] # NoProc)]_vars

\* a child of "a" has exited with status 1: Stopped, then the error
C21_Witness ==
  emitted = <<StatusEvent("a", FALSE), ErrorEvent(NameOf("a"), "a", "1")>>

\* the calls of bag B that the loop of startAutoStartConfigs awaits
AutoCalls(B) == {c \in BagToSet(B) : c.auto}

\* C22: in startAutoStartConfigs a start that fails (toml write or spawn)
\* sends an error event for its id and the loop goes on to the next record;
\* the loop starts a record exactly when it has autoStart and not isRunning,
\* awaits one start at a time and passes such a record only when its start
\* has settled, so each gets one attempt; and init() completes.
C22_AutoStartFailureIsolated ==
  /\ [][/\ \A call \in Calls :
            (call.auto /\ (StartWriteFail(call) \/ StartSpawnFail(call)))
              => /\ \E e \in ErrorEvents(emitted') : e.configId = call.id
                 /\ autoIdx' = autoIdx + 1
                 /\ session' = "booting"
        /\ (startAutoStartConfigs /\ autoIdx <= Len(configs))
              => LET cfg == configs[autoIdx]
                 IN IF cfg.autoStart /\ ~cfg.isRunning
                      THEN /\ calls' = calls (+) SetToBag({Call(cfg.id, TRUE, TRUE)})
                           /\ autoIdx' = autoIdx
                      ELSE /\ calls' = calls
                           /\ autoIdx' = autoIdx + 1
        /\ (session = "booting" /\ session' = "booting")
              => /\ autoIdx' \in {autoIdx, autoIdx + 1}
                 /\ Cardinality(AutoCalls(calls')) <= 1
                 /\ \A c \in AutoCalls(calls') : CopiesIn(c, calls') = 1
                 /\ (/\ autoIdx' = autoIdx + 1
                     /\ configs[autoIdx].autoStart
                     /\ ~configs[autoIdx].isRunning)
                      => \E c \in AutoCalls(calls) :
                           /\ c.id = configs[autoIdx].id
                           /\ calls' = calls (-) SetToBag({c})]_vars
  /\ (session = "booting") ~> (session = "ready")

\* the start of the first auto-start record has failed and the loop has
\* started the second
C22_Witness ==
  /\ session = "booting"
  /\ Len(configs) = 2
  /\ autoIdx = 3
  /\ configs[1].autoStart /\ ~configs[1].isRunning /\ processes[configs[1].id] = NoProc
  /\ emitted = <<StatusEvent(configs[2].id, TRUE)>>

\* the ids with an entry in the process table
Tracked == {i \in IdVals : processes[i] # NoProc}

\* C23: each cleanup() of a quit sends kill() to every tracked child and
\* leaves the table empty in the same step, without an exit having to come
\* first: the children it killed await their 'close' outside the table. It
\* changes nothing else and throws nothing, and with an empty table, as on
\* the second call, it changes nothing at all, whatever exits arrived before.
C23_CleanupIdempotent ==
  [][(QuitApp \/ BeforeQuit)
       => /\ \A i \in IdVals : processes'[i] = NoProc
          /\ \A i \in Tracked :
               LET k == [processes[i] EXCEPT !.state = "killed"]
               IN CopiesIn(k, detached') > CopiesIn(k, detached)
          /\ BagCardinality(detached') = BagCardinality(detached) + Cardinality(Tracked)
          /\ \A ch \in BagToSet(detached) : CopiesIn(ch, detached') >= CopiesIn(ch, detached)
          /\ returned'.outcome # "rejected"
          /\ emitted' = <<>>
          /\ UNCHANGED <<configs, calls, file>>
          /\ (Tracked = {}) => UNCHANGED <<processes, detached>>]_vars

\* the second cleanup() of a quit has run and a child the first one killed
\* has not exited yet
C23_Witness ==
  /\ session = "exiting"
  /\ Tracked = {}
  /\ \E ch \in BagToSet(detached) : ch.state = "killed"

\* C24: an init() that throws at initBinary is reported by one
\* 'initialization-error' and the application goes on serving; from then on,
\* while the binary cannot be executed, a startFrp request registers nothing:
\* the table is left as it was, no child is added and no Running status is
\* announced.
C24_InertAfterInitFailure ==
  [][/\ initFails => (emitted' = <<InitErrorEvent>> /\ session' \in Serving)
     /\ (session = "failed")
          => /\ \A k \in DOMAIN emitted' : emitted'[k] # InitErrorEvent
             /\ \A call \in Calls :
                  StartSpawnFail(call)
                    => /\ processes' = processes
                       /\ \A id \in IdVals : Live(id)' = Live(id)
                       /\ StatusIds(emitted', TRUE) = {}]_vars

\* C25: when the startFrp of a restartFrp fails, at its toml write or at
\* its spawn, the restart returns the failure to its caller, the id is left
\* without a tracked process and with runState Stopped, and no other start
\* is begun.
C25_RestartFailureSurfaced ==
  [][\A call \in Calls :
       (StartWriteFail(call) \/ StartSpawnFail(call))
         => /\ returned'.id = call.id
            /\ returned'.outcome = "rejected"
            /\ processes'[call.id] = NoProc
            /\ \A i \in DOMAIN configs' :
                 configs'[i].id = call.id => ~configs'[i].isRunning
            /\ calls' = calls (-) SetToBag({call})]_vars

\* a step of startFrp, stopFrp or restartFrp on id A, from IPC or the tray,
\* or of a callback of a child of A
StepOf(A) ==
  \/ IpcStart(A) \/ IpcStop(A) \/ IpcRestart(A)
  \/ \E i \in DOMAIN configs : configs[i].id = A /\ (TrayToggle(i) \/ TrayRestart(i))
  \/ \E call \in {c \in BagToSet(calls) : c.id = A} :
       StartSpawn(call) \/ StartSpawnFail(call) \/ StartWriteFail(call)
  \/ \E ch \in {c \in BagToSet(detached) : c.id = A} :
       ProcStderr(ch, FALSE) \/ \E code \in ExitCodes : ProcClose(ch, FALSE, code)
  \/ /\ processes[A] # NoProc
     /\ \/ ProcStderr(processes[A], TRUE)
        \/ \E code \in ExitCodes : ProcClose(processes[A], TRUE, code)

\* the step changes nothing of id B and sends nothing for it
Untouched(B) ==
  /\ processes'[B] = processes[B]
  /\ Len(configs') = Len(configs)
  /\ \A i \in DOMAIN configs : configs[i].id = B => configs'[i] = configs[i]
  /\ \A ch \in BagToSet(detached) \cup BagToSet(detached') :
       ch.id = B => CopiesIn(ch, detached') = CopiesIn(ch, detached)
  /\ \A c \in BagToSet(calls) \cup BagToSet(calls') :
       c.id = B => CopiesIn(c, calls') = CopiesIn(c, calls)
  /\ \A k \in DOMAIN emitted' :
       LET e == emitted'[k]
       IN /\ e.type = "status" => e.id # B
          /\ e.type = "error" => (e.configId # B /\ e.about # B)

Declarative(cfgs) ==
  [i \in DOMAIN cfgs |->
     [id |-> cfgs[i].id, config |-> cfgs[i].config, autoStart |-> cfgs[i].autoStart]]

\* C27: when no saveConfig or deleteConfig is in flight, every write having
\* succeeded, configs.json holds the declarative fields of the registry,
\* record by record, also after calls that overlapped.
C27_FileMatchesRegistry ==
  (session \in Serving /\ writes = EmptyBag)
    => Declarative(file) = Declarative(configs)

\* the ids of the records of a registry or of configs.json
IdsIn(cfgs) == {cfgs[i].id : i \in DOMAIN cfgs}

\* C28: no step other than a deleteConfig removes a record from
\* configs.json, and while the application serves requests getConfigs()
\* lists every id the file holds, also in a session whose init() threw
\* before the registry was loaded.
C28_PersistedRecordsKept ==
  [][/\ IdsIn(file) \subseteq IdsIn(file')
     /\ session' \in Serving => IdsIn(file') \subseteq IdsIn(configs')]_vars

\* C29: every channel the renderer invokes has a handler, and pressing the
\* start/stop button of a record returns without an error and stops the
\* record's child when it has one and starts one when it has none.
C29_ToggleHandled ==
  [][\A id \in Ids :
       handleToggleRunning(id)
         => /\ InvokedChannels \subseteq HandledChannels
            /\ returned'.outcome = "resolved"
            /\ IF processes[id] # NoProc
                 THEN processes'[id] = NoProc
                 ELSE \/ processes'[id] # NoProc
                      \/ \E c \in BagToSet(calls') :
                           c.id = id /\ CopiesIn(c, calls') > CopiesIn(c, calls)]_vars

====
